---- MODULE Spec2Model ----
(***************************************************************************)
(* Model of SDUPreprocessor.process (preprocess_SDU.py) and of its two     *)
(* numeric helpers calc_Q and organize_cycle_index.                        *)
(*                                                                         *)
(* Numbers.  Times are whole seconds and a current is a whole number of    *)
(* 1/Amp amperes.  A capacity is a whole number of 1/Ah ampere-hours,      *)
(* where Ah = 3600 * Amp, so that I * dt / 3600 is exact.  Floating-point  *)
(* rounding is not modelled; arithmetic is exact rational arithmetic.      *)
(* The Voltage(V) column is carried through the code untouched and is      *)
(* left out of the rows.                                                   *)
(***************************************************************************)
EXTENDS Integers, Sequences, FiniteSets, TLC

VARIABLES
    pc,                     \* position of process(): start, files, groups, body, continue, returned, raised
    raw_files,              \* number of *.csv files not yet iterated over
    df,                     \* Battery_ID keys the groupby of the current file has yet to yield
    battery_id,             \* key of the group handed to the loop body
    battery_df,             \* rows of that group, in file order
    process_batteries_num,
    skip_batteries_num,
    result,                 \* the pair returned by process(), <<>> before it returns
    battery,                \* the BatteryData this iteration handed to dump_single_file, <<>> if none
    dump_calls,             \* history: number of dump_single_file calls
    skip_reports,           \* history: number of check_processed_file calls that returned True
    pipeline_runs,          \* history: number of groups for which organize_cycle_index was called
    drops,                  \* history: number of groups left by one of the two "continue"s of lines 106, 126
    groups_seen,            \* history: number of groups yielded by df.groupby('Battery_ID')
    last_outcome,           \* history: how the latest loop body ended
    arg,                    \* argument of the function applied by the function-level specifications
    ret,                    \* its result
    fpc                     \* "idle", "call" or "done"

vars == <<pc, raw_files, df, battery_id, battery_df, process_batteries_num,
          skip_batteries_num, result, battery, dump_calls, skip_reports,
          pipeline_runs, drops, groups_seen, last_outcome, arg, ret, fpc>>

driverVars == <<pc, raw_files, df, battery_id, battery_df, process_batteries_num,
                skip_batteries_num, result, battery, dump_calls, skip_reports,
                pipeline_runs, drops, groups_seen, last_outcome>>

fnVars == <<arg, ret, fpc>>

(***************************************************************************)
(* Bounds                                                                  *)
(***************************************************************************)
MaxFiles == 2               \* files in the directory
MaxGroups == 2              \* batteries per file
MaxCycles == 5              \* cycles per battery in the enumerated inputs
MaxLen == 4                 \* length of the arrays given to organize_cycle_index
MaxSamples == 3             \* length of the arrays given to calc_Q
Amp == 29                   \* resolution of the currents: units per ampere

(***************************************************************************)
(* Program constants and units                                             *)
(***************************************************************************)
SecondsPerHour == 3600
LongKernel == 21
ShortKernel == 5
Ah == SecondsPerHour * Amp  \* capacity units per ampere-hour
QdFloor == Ah \div 10       \* the literal 0.1 of line 119
NaN == -1                   \* a missing Cycle_Index cell, read as float NaN

Min(a, b) == IF a <= b THEN a ELSE b
Abs(x) == IF x < 0 THEN -x ELSE x
Range(s) == {s[i] : i \in 1..Len(s)}

\* the sequence given by a function on 1..n, as a list of evaluated elements
List(f) == f \o <<>>

RECURSIVE SeqSum(_)
SeqSum(s) == IF s = <<>> THEN 0 ELSE Head(s) + SeqSum(Tail(s))

SeqsUpTo(S, n) == UNION {[1..k -> S] : k \in 1..n}

\* IEEE comparison and increment on values that may be NaN
NotEqual(a, b) == a = NaN \/ b = NaN \/ a # b
PlusOne(a) == IF a = NaN THEN NaN ELSE a + 1

(***************************************************************************)
(* organize_cycle_index: the array is rewritten in place; a is the array   *)
(* as it stands when the loop reaches index i (1-based here).              *)
(***************************************************************************)
\* the comparison reads the value just written instead of the raw one
RECURSIVE organize_loop_rewritten(_, _, _, _)
organize_loop_rewritten(a, i, current_cycle, prev_value) ==
    IF i > Len(a) THEN a
    ELSE IF NotEqual(a[i], prev_value)
         THEN organize_loop_rewritten([a EXCEPT ![i] = PlusOne(current_cycle)], i + 1,
                                      PlusOne(current_cycle), PlusOne(current_cycle))
         ELSE organize_loop_rewritten([a EXCEPT ![i] = current_cycle], i + 1,
                                      current_cycle, prev_value)

\* lines 178-182
RECURSIVE organize_loop(_, _, _, _)
organize_loop(a, i, current_cycle, prev_value) ==
    IF i > Len(a) THEN a
    ELSE IF NotEqual(a[i], prev_value)
         THEN organize_loop([a EXCEPT ![i] = PlusOne(current_cycle)], i + 1,
                            PlusOne(current_cycle), a[i])
         ELSE organize_loop([a EXCEPT ![i] = current_cycle], i + 1,
                            current_cycle, prev_value)

organize_cycle_index(cycle_index) ==
    organize_loop(cycle_index, 2, cycle_index[1], cycle_index[1])

(***************************************************************************)
(* calc_Q.  Q = np.zeros_like(I) has the dtype of I: a Current(A) column   *)
(* whose cells are all integers is read by pandas as int64, and a float    *)
(* stored into an int64 array is truncated toward zero, to whole Ah.       *)
(***************************************************************************)
TruncToInt(q) == IF q >= 0 THEN (q \div Ah) * Ah ELSE -(((-q) \div Ah) * Ah)

Store(dtype, q) == IF dtype = "int64" THEN TruncToInt(q) ELSE q

RECURSIVE calc_Q_loop(_, _, _, _, _, _)
calc_Q_loop(Q, I, t, is_charge, dtype, i) ==
    IF i > Len(I) THEN Q
    ELSE LET dq == (I[i] * (t[i] - t[i-1]) * (Ah \div Amp)) \div SecondsPerHour
             q  == IF is_charge /\ I[i] > 0 THEN Store(dtype, Q[i-1] + dq)
                   ELSE IF ~is_charge /\ I[i] < 0 THEN Store(dtype, Q[i-1] - dq)
                   ELSE Q[i-1]
         IN  calc_Q_loop([Q EXCEPT ![i] = q], I, t, is_charge, dtype, i + 1)

calc_Q(I, t, is_charge, dtype) ==
    calc_Q_loop(List([i \in 1..Len(I) |-> 0]), I, t, is_charge, dtype, 2)

(***************************************************************************)
(* The per-battery pipeline of process(), lines 62-145.  A battery_df is   *)
(* [dtype, rows]: dtype is the dtype pandas gave the Current(A) column,    *)
(* rows are records [Cycle_Index, Test_Time, Current] in file order.       *)
(***************************************************************************)
\* the place of row j once the rows are ordered by Test_Time; rows with equal
\* times keep their order (no two rows of the inputs below have equal times)
Rank(rows, j) ==
    Cardinality({k \in 1..Len(rows) :
                    \/ rows[k].Test_Time < rows[j].Test_Time
                    \/ rows[k].Test_Time = rows[j].Test_Time /\ k <= j})

Ranks(rows) == List([j \in 1..Len(rows) |-> Rank(rows, j)])

Permute(rows, ranks) ==
    List([p \in 1..Len(rows) |-> rows[CHOOSE j \in 1..Len(rows) : ranks[j] = p]])

\* line 66
sort_values(rows) == Permute(rows, Ranks(rows))

SetColumn(rows, n) == List([i \in 1..Len(rows) |-> [rows[i] EXCEPT !.Cycle_Index = n[i]]])

\* line 69: the Cycle_Index column replaced by its normalisation
NormalizeColumn(rows) ==
    SetColumn(rows, organize_cycle_index(List([i \in 1..Len(rows) |-> rows[i].Cycle_Index])))

RECURSIVE SortedKeys(_)
SortedKeys(S) ==
    IF S = {} THEN <<>>
    ELSE LET m == CHOOSE x \in S : \A y \in S : x <= y
         IN  <<m>> \o SortedKeys(S \ {m})

\* groupby(['date', 'Cycle_Index']): keys ascending, NaN keys dropped
GroupKeys(rows) == SortedKeys({rows[i].Cycle_Index : i \in 1..Len(rows)} \ {NaN})

RowsWithKey(rows, key) ==
    LET InGroup(r) == r.Cycle_Index = key
    IN  SelectSeq(rows, InGroup)

\* lines 87-94; enumerated is a history field, the number given at line 88
CycleData(cycle_index, I, t, dtype) ==
    [cycle_number |-> cycle_index,
     enumerated |-> cycle_index,
     current_in_A |-> I,
     time_in_s |-> t,
     charge_capacity_in_Ah |-> calc_Q(I, t, TRUE, dtype),
     discharge_capacity_in_Ah |-> calc_Q(I, t, FALSE, dtype)]

\* lines 79-94
CycleOf(cycle_index, cycle_df, dtype) ==
    CycleData(cycle_index,
              List([j \in 1..Len(cycle_df) |-> cycle_df[j].Current]),
              List([j \in 1..Len(cycle_df) |-> cycle_df[j].Test_Time]),
              dtype)

GroupCycles(rows, keys, dtype) ==
    List([k \in 1..Len(keys) |-> CycleOf(k - 1, RowsWithKey(rows, keys[k]), dtype)])

\* lines 77-94
BuildCycles(rows, dtype) == GroupCycles(rows, GroupKeys(rows), dtype)

\* lines 62-94
CyclesOf(bdf) == BuildCycles(NormalizeColumn(sort_values(bdf.rows)), bdf.dtype)

SeqMax(s) == CHOOSE x \in Range(s) : \A y \in Range(s) : y <= x

\* lines 97-102
PeakQd(cycles) ==
    List([i \in 1..Len(cycles) |->
            IF Len(cycles[i].discharge_capacity_in_Ah) > 0
            THEN SeqMax(cycles[i].discharge_capacity_in_Ah) ELSE 0])

\* lines 109-112: the kernel size handed to medfilt
KernelSize(n) == IF n >= LongKernel THEN LongKernel ELSE Min(n, ShortKernel)

\* scipy.signal.medfilt raises ValueError unless the kernel size is odd
MedfiltRaises(kernel_size) == kernel_size % 2 # 1

\* k-th smallest element (k from 1) of a sequence
KthSmallest(w, k) ==
    CHOOSE v \in Range(w) :
        /\ Cardinality({j \in 1..Len(w) : w[j] < v}) < k
        /\ Cardinality({j \in 1..Len(w) : w[j] <= v}) >= k

\* the kernel_size elements around volume[i], zeros beyond the ends
Window(volume, kernel_size, i) ==
    List([j \in 1..kernel_size |->
            LET at == i - (kernel_size \div 2) + j - 1
            IN  IF at >= 1 /\ at <= Len(volume) THEN volume[at] ELSE 0])

\* scipy.signal.medfilt for an odd kernel size: the volume is zero-padded
medfilt(volume, kernel_size) ==
    List([i \in 1..Len(volume) |->
            KthSmallest(Window(volume, kernel_size, i), kernel_size \div 2 + 1)])

\* twice np.median(x): the mean of the two middle elements when Len(x) is even
median_x2(x) ==
    IF Len(x) % 2 = 1 THEN 2 * KthSmallest(x, (Len(x) + 1) \div 2)
    ELSE KthSmallest(x, Len(x) \div 2) + KthSmallest(x, Len(x) \div 2 + 1)

AbsDev(Qd, Qd_med) == List([i \in 1..Len(Qd) |-> Abs(Qd[i] - Qd_med[i])])

\* line 115: dev < 3 * ths, with ths_x2 = 2 * ths
Below(dev, ths_x2) == List([i \in 1..Len(dev) |-> 2 * dev[i] < 3 * ths_x2])

\* line 114
BelowThreshold(dev) == Below(dev, median_x2(dev))

\* lines 114-115
should_keep(Qd, Qd_med) == BelowThreshold(AbsDev(Qd, Qd_med))

\* line 119
Keeps_atfloor(keep, Qd, i) == keep[i] /\ Qd[i] >= QdFloor

Keeps(keep, Qd, i) == keep[i] /\ Qd[i] > QdFloor

\* lines 117-122
RECURSIVE clean_loop_stale(_, _, _, _, _, _)
clean_loop_stale(cycles, keep, Qd, i, index, clean) ==
    IF i > Len(cycles) THEN clean
    ELSE IF Keeps(keep, Qd, i)
         THEN clean_loop_stale(cycles, keep, Qd, i + 1, index + 1, Append(clean, cycles[i]))
         ELSE clean_loop_stale(cycles, keep, Qd, i + 1, index, clean)

RECURSIVE clean_loop(_, _, _, _, _, _)
clean_loop(cycles, keep, Qd, i, index, clean) ==
    IF i > Len(cycles) THEN clean
    ELSE IF Keeps(keep, Qd, i)
         THEN clean_loop(cycles, keep, Qd, i + 1, index + 1,
                         Append(clean, [cycles[i] EXCEPT !.cycle_number = index + 1]))
         ELSE clean_loop(cycles, keep, Qd, i + 1, index, clean)

CellId(id) == <<"CSV", "Battery", id>>

\* line 129
InitialCapacities(first) ==
    List([i \in 1..Len(first) |-> SeqMax(first[i].discharge_capacity_in_Ah)])

\* lines 130-145; the nominal capacity is kept as the pair (sum, count) of its mean
BatteryOf(id, clean_cycles, initial_capacities) ==
    [cell_id |-> CellId(id),
     cycle_data |-> clean_cycles,
     nominal_capacity_in_Ah |-> <<SeqSum(initial_capacities), Len(initial_capacities)>>]

\* lines 129-145
BatteryData(id, clean_cycles) ==
    BatteryOf(id, clean_cycles,
              InitialCapacities(SubSeq(clean_cycles, 1, Min(Len(clean_cycles), 5))))

\* lines 124-126
Cleaned(kernel_size, clean) ==
    [kind |-> IF Len(clean) = 0 THEN "no_clean" ELSE "clean",
     kernel_size |-> kernel_size, clean_cycles |-> clean]

\* lines 104-126, Qd being the peaks of the cycles
FilterPeaks(cycles, Qd, kernel_size) ==
    IF Len(Qd) = 0 THEN [kind |-> "no_valid", kernel_size |-> 0, clean_cycles |-> <<>>]
    ELSE IF MedfiltRaises(kernel_size)
         THEN [kind |-> "raised", kernel_size |-> kernel_size, clean_cycles |-> <<>>]
    ELSE Cleaned(kernel_size,
                 clean_loop(cycles, should_keep(Qd, medfilt(Qd, kernel_size)), Qd, 1, 0, <<>>))

\* lines 96-126 applied to the list of cycles of one battery
FilterCycles(cycles) == FilterPeaks(cycles, PeakQd(cycles), KernelSize(Len(cycles)))

(***************************************************************************)
(* Function-level specifications: Init draws the argument, the action      *)
(* applies the function.  The variables of process() stay idle.            *)
(***************************************************************************)
DriverIdle ==
    /\ pc = "idle" /\ raw_files = 0 /\ df = <<>> /\ battery_id = 0
    /\ battery_df = <<>> /\ process_batteries_num = 0 /\ skip_batteries_num = 0
    /\ result = <<>> /\ battery = <<>> /\ dump_calls = 0 /\ skip_reports = 0
    /\ pipeline_runs = 0 /\ drops = 0 /\ groups_seen = 0 /\ last_outcome = "none"

RawValues == {1, 2, 3}

InitNormalize ==
    /\ DriverIdle
    /\ arg \in SeqsUpTo(RawValues, MaxLen) \cup {<<1, 1, 2, 2, 2, 3, 1>>}
    /\ ret = <<>>
    /\ fpc = "call"

CallOrganize ==
    /\ fpc = "call"
    /\ ret' = organize_cycle_index(arg)
    /\ fpc' = "done"
    /\ UNCHANGED <<arg, driverVars>>

SpecNormalize == InitNormalize /\ [][CallOrganize]_vars

Currents == {-Amp, 0, 2 * Amp}
Times == {0, 1800, 3600}
Dtypes == {"int64", "float64"}

InitCalcQ ==
    /\ DriverIdle
    /\ \E n \in 1..MaxSamples :
         arg \in [I : [1..n -> Currents], t : [1..n -> Times],
                  is_charge : BOOLEAN, dtype : Dtypes]
    /\ ret = <<>>
    /\ fpc = "call"

CallCalcQ ==
    /\ fpc = "call"
    /\ ret' = calc_Q(arg.I, arg.t, arg.is_charge, arg.dtype)
    /\ fpc' = "done"
    /\ UNCHANGED <<arg, driverVars>>

SpecCalcQ == InitCalcQ /\ [][CallCalcQ]_vars

\* a cycle as lines 79-94 build it, discharged to the peak q within one second
CycleWithPeak(i, q) == CycleData(i - 1, <<0, -q>>, <<2 * i, 2 * i + 1>>, "float64")

CyclesWithPeaks(peaks) == List([i \in 1..Len(peaks) |-> CycleWithPeak(i, peaks[i])])

\* 0.1 Ah, just above it, 0.2 Ah and 0.3 Ah
PeakLevels == {QdFloor, QdFloor + 1, 2 * QdFloor, 3 * QdFloor}

\* peaks declining linearly from 2.0 Ah to 1.5 Ah over n cycles, but for
\* one cycle at 0.05 Ah and one at 4.0 Ah
Decline(n, low, high) ==
    [i \in 1..n |->
        IF i = low THEN Ah \div 20
        ELSE IF i = high THEN 4 * Ah
        ELSE 2 * Ah - ((i - 1) * (Ah \div 2)) \div (n - 1)]

ScenarioPeaks ==
    {Decline(30, low, high) : low \in 1..30, high \in {20, 30}}

InitFilter ==
    /\ DriverIdle
    /\ \E peaks \in SeqsUpTo(PeakLevels, MaxCycles) \cup ScenarioPeaks :
         arg = CyclesWithPeaks(peaks)
    /\ ret = <<>>
    /\ fpc = "call"

CallFilter ==
    /\ fpc = "call"
    /\ ret' = FilterCycles(arg)
    /\ fpc' = "done"
    /\ UNCHANGED <<arg, driverVars>>

SpecFilter == InitFilter /\ [][CallFilter]_vars

(***************************************************************************)
(* process(): the inputs.  A battery of the enumerated inputs has one      *)
(* cycle per entry of levels; cycle c has two rows, a rest sample and,     *)
(* StepSeconds later, a discharge sample of levels[c] amperes, so that     *)
(* its peak discharge capacity is levels[c] * 0.1 Ah.  Raw cycle indices   *)
(* alternate between 1 and 2.                                              *)
(***************************************************************************)
StepSeconds == 3600 \div 10
Levels == {1, 2}

Formats ==
    {[dtype |-> "float64", descending |-> FALSE, nan_index |-> FALSE],
     [dtype |-> "float64", descending |-> TRUE,  nan_index |-> FALSE],
     [dtype |-> "int64",   descending |-> FALSE, nan_index |-> FALSE],
     [dtype |-> "float64", descending |-> FALSE, nan_index |-> TRUE]}

Reverse(s) == List([i \in 1..Len(s) |-> s[Len(s) + 1 - i]])

FrameRows(levels, nan_index) ==
    [j \in 1..(2 * Len(levels)) |->
        LET c == (j + 1) \div 2
        IN  [Cycle_Index |-> IF j = 1 /\ nan_index THEN NaN ELSE 2 - (c % 2),
             Test_Time |-> (j - 1) * StepSeconds,
             Current |-> IF j % 2 = 1 THEN 0 ELSE -levels[c] * Amp]]

Frame(levels, fmt) ==
    [dtype |-> fmt.dtype,
     rows |-> IF fmt.descending THEN Reverse(FrameRows(levels, fmt.nan_index))
              ELSE FrameRows(levels, fmt.nan_index)]

\* a battery of LongKernel cycles fading from level 2 * LongKernel, with one cycle at level 1
FadingLevels(low) == [c \in 1..LongKernel |-> IF c = low THEN 1 ELSE 2 * LongKernel - c]

PlainFormat == [dtype |-> "float64", descending |-> FALSE, nan_index |-> FALSE]

BatteryFrames ==
    {Frame(levels, fmt) : levels \in SeqsUpTo(Levels, MaxCycles), fmt \in Formats}
    \cup {Frame(FadingLevels(low), PlainFormat) : low \in {1, LongKernel}}

\* lines 62-126 for one battery: the list of its cycles and what the filter makes of it
Piped(cycles) == [cycles |-> cycles, outcome |-> FilterCycles(cycles)]

\* lines 62-126 for every battery of the inputs, computed once
Pipeline == [f \in BatteryFrames |-> Piped(CyclesOf(f))] @@ <<>>

(***************************************************************************)
(* process(): the state machine.  One action per way through an iteration  *)
(* of the file loop and of the battery loop.                               *)
(***************************************************************************)
Init ==
    /\ pc = "start"
    /\ raw_files \in 0..MaxFiles
    /\ df = <<>> /\ battery_id = 0 /\ battery_df = <<>>
    /\ process_batteries_num = 0 /\ skip_batteries_num = 0
    /\ result = <<>> /\ battery = <<>>
    /\ dump_calls = 0 /\ skip_reports = 0 /\ pipeline_runs = 0
    /\ drops = 0 /\ groups_seen = 0 /\ last_outcome = "none"
    /\ arg = <<>> /\ ret = <<>> /\ fpc = "idle"

history == <<dump_calls, skip_reports, pipeline_runs, drops, groups_seen>>
counters == <<process_batteries_num, skip_batteries_num>>

\* lines 25-27
NoCsvFiles ==
    /\ pc = "start" /\ raw_files = 0
    /\ result' = <<0, 0>>
    /\ pc' = "returned"
    /\ UNCHANGED <<raw_files, df, battery_id, battery_df, counters, battery,
                   history, last_outcome, fnVars>>

\* lines 29-33
EnterLoop ==
    /\ pc = "start" /\ raw_files > 0
    /\ process_batteries_num' = 0 /\ skip_batteries_num' = 0
    /\ pc' = "files"
    /\ UNCHANGED <<raw_files, df, battery_id, battery_df, result, battery,
                   history, last_outcome, fnVars>>

\* lines 36-45: read_csv raises, the file is left out
ReadCsvFails ==
    /\ pc = "files" /\ raw_files > 0
    /\ raw_files' = raw_files - 1
    /\ last_outcome' = "unreadable"
    /\ UNCHANGED <<pc, df, battery_id, battery_df, counters, result, battery,
                   history, fnVars>>

\* lines 36-48: the file is read; its Battery_ID keys in the order groupby yields them
ReadCsv ==
    /\ pc = "files" /\ raw_files > 0
    /\ raw_files' = raw_files - 1
    /\ \E ids \in SUBSET (1..MaxGroups) : df' = SortedKeys(ids)
    /\ pc' = "groups"
    /\ last_outcome' = "read"
    /\ UNCHANGED <<battery_id, battery_df, counters, result, battery, history, fnVars>>

\* line 48: the next (battery_id, battery_df) of the groupby
GroupBy ==
    /\ pc = "groups" /\ df # <<>>
    /\ battery_id' = Head(df)
    /\ df' = Tail(df)
    /\ battery_df' \in BatteryFrames
    /\ groups_seen' = groups_seen + 1
    /\ last_outcome' = "group"
    /\ pc' = "body"
    /\ UNCHANGED <<raw_files, counters, result, battery, dump_calls, skip_reports,
                   pipeline_runs, drops, fnVars>>

\* line 48: the groupby is exhausted
EndGroups ==
    /\ pc = "groups" /\ df = <<>>
    /\ pc' = "files"
    /\ last_outcome' = "file_done"
    /\ UNCHANGED <<raw_files, df, battery_id, battery_df, counters, result, battery,
                   history, fnVars>>

\* a skip that forgets the continue of line 55 and runs the pipeline
SkipProcessed_fallthrough ==
    /\ pc = "body"
    /\ skip_batteries_num' = skip_batteries_num + 1
    /\ skip_reports' = skip_reports + 1
    /\ pipeline_runs' = pipeline_runs + 1
    /\ last_outcome' = "skipped"
    /\ pc' = "continue"
    /\ UNCHANGED <<raw_files, df, battery_id, battery_df, process_batteries_num,
                   result, battery, dump_calls, drops, groups_seen, fnVars>>

\* lines 52-55: check_processed_file(CellId(battery_id)) answers True
SkipProcessed ==
    /\ pc = "body"
    /\ skip_batteries_num' = skip_batteries_num + 1
    /\ skip_reports' = skip_reports + 1
    /\ last_outcome' = "skipped"
    /\ pc' = "continue"
    /\ UNCHANGED <<raw_files, df, battery_id, battery_df, process_batteries_num,
                   result, battery, dump_calls, pipeline_runs, drops, groups_seen, fnVars>>

\* lines 104-151: what the rest of the iteration does once the cycles are
\* filtered, o being FilterCycles of the battery's cycles; p and s are the counters
BodyEffect_countsdrop(o, id, p, s) ==
    CASE o.kind = "no_valid" -> [pc |-> "continue", battery |-> <<>>, dumps |-> 0, drops |-> 1,
                                 process_batteries_num |-> p, skip_batteries_num |-> s + 1]
      [] o.kind = "raised"   -> [pc |-> "raised", battery |-> <<>>, dumps |-> 0, drops |-> 0,
                                 process_batteries_num |-> p, skip_batteries_num |-> s]
      [] o.kind = "no_clean" -> [pc |-> "continue", battery |-> <<>>, dumps |-> 0, drops |-> 1,
                                 process_batteries_num |-> p, skip_batteries_num |-> s + 1]
      [] o.kind = "clean"    -> [pc |-> "continue", battery |-> BatteryData(id, o.clean_cycles),
                                 dumps |-> 1, drops |-> 0,
                                 process_batteries_num |-> p + 1, skip_batteries_num |-> s]

BodyEffect(o, id, p, s) ==
    CASE o.kind = "no_valid" -> \* lines 104-106
                                [pc |-> "continue", battery |-> <<>>, dumps |-> 0, drops |-> 1,
                                 process_batteries_num |-> p, skip_batteries_num |-> s]
      [] o.kind = "raised"   -> \* lines 109-112: medfilt raises ValueError, which nothing
                                \* in process() catches
                                [pc |-> "raised", battery |-> <<>>, dumps |-> 0, drops |-> 0,
                                 process_batteries_num |-> p, skip_batteries_num |-> s]
      [] o.kind = "no_clean" -> \* lines 124-126
                                [pc |-> "continue", battery |-> <<>>, dumps |-> 0, drops |-> 1,
                                 process_batteries_num |-> p, skip_batteries_num |-> s]
      [] o.kind = "clean"    -> \* lines 128-151
                                [pc |-> "continue", battery |-> BatteryData(id, o.clean_cycles),
                                 dumps |-> 1, drops |-> 0,
                                 process_batteries_num |-> p + 1, skip_batteries_num |-> s]

\* lines 52-151 when check_processed_file answers False
ProcessBattery ==
    /\ pc = "body"
    /\ \E o \in {Pipeline[battery_df].outcome} :
       \E e \in {BodyEffect(o, battery_id, process_batteries_num, skip_batteries_num)} :
           /\ pc' = e.pc
           /\ battery' = e.battery
           /\ process_batteries_num' = e.process_batteries_num
           /\ skip_batteries_num' = e.skip_batteries_num
           /\ dump_calls' = dump_calls + e.dumps
           /\ drops' = drops + e.drops
           /\ last_outcome' = o.kind
    /\ pipeline_runs' = pipeline_runs + 1
    /\ UNCHANGED <<raw_files, df, battery_id, battery_df, result, skip_reports,
                   groups_seen, fnVars>>

\* lines 55, 106, 126, 151: back to the head of the battery loop; the locals
\* of the iteration are dead
Continue ==
    /\ pc = "continue"
    /\ pc' = "groups"
    /\ battery' = <<>> /\ battery_df' = <<>>
    /\ last_outcome' = "continue"
    /\ UNCHANGED <<raw_files, df, battery_id, counters, result, history, fnVars>>

\* line 153
Return ==
    /\ pc = "files" /\ raw_files = 0
    /\ result' = <<process_batteries_num, skip_batteries_num>>
    /\ pc' = "returned"
    /\ UNCHANGED <<raw_files, df, battery_id, battery_df, counters, battery,
                   history, last_outcome, fnVars>>

Next ==
    \/ NoCsvFiles
    \/ EnterLoop
    \/ ReadCsvFails
    \/ ReadCsv
    \/ GroupBy
    \/ EndGroups
    \/ SkipProcessed
    \/ ProcessBattery
    \/ Continue
    \/ Return

Spec == Init /\ [][Next]_vars

(***************************************************************************)
(* Properties                                                              *)
(***************************************************************************)

\* C1: a failure on one file or one battery group never aborts the batch:
\* process() never ends by an exception, whatever the cycle counts of the
\* batteries (2 and 4 cycles included).
C1_FaultIsolation == pc # "raised"

\* the cycles of the group of the current iteration, before the filter
InputCycles == Pipeline[battery_df].cycles

\* C2: the cycles of a record handed to dump_single_file are numbered
\* 1, 2, ..., K in that order, each is one of the battery's cycles unchanged
\* but for its number, and they stand in their pre-filter order.
C2_Renumbering ==
    battery # <<>> =>
        \E cycles \in {InputCycles} : \E cd \in {battery.cycle_data} :
            /\ Len(cd) >= 1
            /\ \A k \in 1..Len(cd) :
                 /\ cd[k].cycle_number = k
                 /\ cd[k].enumerated + 1 \in 1..Len(cycles)
                 /\ [cd[k] EXCEPT !.cycle_number = cd[k].enumerated]
                      = cycles[cd[k].enumerated + 1]
            /\ \A k \in 1..(Len(cd) - 1) : cd[k].enumerated < cd[k + 1].enumerated

\* a record whose filter dropped a cycle that came before a kept one
C2_Witness ==
    /\ battery # <<>>
    /\ Len(battery.cycle_data) >= 2
    /\ \E k \in 1..Len(battery.cycle_data) : battery.cycle_data[k].enumerated > k - 1

\* C3: the first counter is the number of dump_single_file calls, the second
\* the number of groups reported as already processed; a group dropped for
\* want of cycles adds to neither, so every group seen is counted at most
\* once; the pair returned is the pair of counters.
C3_Counters ==
    /\ process_batteries_num = dump_calls
    /\ skip_batteries_num = skip_reports
    /\ process_batteries_num + skip_batteries_num + drops
         + (IF pc \in {"body", "raised"} THEN 1 ELSE 0) = groups_seen
    /\ process_batteries_num + skip_batteries_num <= groups_seen
    /\ pc = "returned" => result = <<process_batteries_num, skip_batteries_num>>

\* process() has returned after a dump, a skip and a drop
C3_Witness ==
    /\ pc = "returned"
    /\ dump_calls >= 1 /\ skip_reports >= 1 /\ drops >= 1
    /\ result = <<dump_calls, skip_reports>>

\* C4: when check_processed_file reports a group as processed, the skip
\* counter grows by one, no pipeline step runs, nothing is dumped, the
\* processed counter stays, and the loop goes on to the next group.
C4_Skip ==
    [][skip_reports' # skip_reports =>
          /\ skip_batteries_num' = skip_batteries_num + 1
          /\ process_batteries_num' = process_batteries_num
          /\ pipeline_runs' = pipeline_runs
          /\ dump_calls' = dump_calls
          /\ battery' = battery
          /\ pc' = "continue"
          /\ df' = df /\ raw_files' = raw_files]_vars

\* a group has just been skipped, after another one was dumped
C4_Witness ==
    /\ last_outcome = "skipped"
    /\ pc = "continue"
    /\ skip_batteries_num >= 1
    /\ dump_calls >= 1

\* C5: of the 30 cycles declining from 2.0 Ah to 1.5 Ah with cycle 15 at
\* 0.05 Ah and cycle 20 at 4.0 Ah, the filter rejects exactly those two, and
\* the 28 others are numbered 1..28.
C5_Scenario ==
    (fpc = "done" /\ PeakQd(arg) = Decline(30, 15, 20)) =>
        /\ ret.kind = "clean"
        /\ Len(ret.clean_cycles) = 28
        /\ \A k \in 1..Len(ret.clean_cycles) : ret.clean_cycles[k].cycle_number = k
        /\ {ret.clean_cycles[k].enumerated + 1 : k \in 1..Len(ret.clean_cycles)}
             = (1..30) \ {15, 20}

\* C6: a cycle whose peak is above 0.1 Ah and which does not deviate from the
\* median-filtered reference is retained (wherever the median filter runs).
C6_Retention ==
    (fpc = "done" /\ ret.kind \in {"clean", "no_clean"}) =>
        \E Qd \in {PeakQd(arg)} : \E dev \in {AbsDev(Qd, medfilt(Qd, ret.kernel_size))} :
            \A i \in 1..Len(Qd) :
                (Qd[i] > QdFloor /\ dev[i] = 0) =>
                    \E k \in 1..Len(ret.clean_cycles) : ret.clean_cycles[k].enumerated = i - 1

\* C7: every cycle of a record handed to dump_single_file peaks above 0.1 Ah;
\* a cycle that peaks at 0.1 Ah or below is in no record; a battery whose
\* cycles all peak at 0.1 Ah or below yields no record.
C7_FilterFloor ==
    /\ battery # <<>> =>
         \E Qd \in {PeakQd(InputCycles)} : \E cd \in {battery.cycle_data} :
            /\ \A k \in 1..Len(cd) : SeqMax(cd[k].discharge_capacity_in_Ah) > QdFloor
            /\ \A i \in 1..Len(Qd) :
                 Qd[i] <= QdFloor => \A k \in 1..Len(cd) : cd[k].enumerated # i - 1
    /\ (pc = "continue" /\ last_outcome \in {"clean", "no_clean", "no_valid"}) =>
         \E Qd \in {PeakQd(InputCycles)} :
            (\A i \in 1..Len(Qd) : Qd[i] <= QdFloor) => battery = <<>>

\* a record was dumped for a battery one of whose cycles peaks at exactly
\* 0.1 Ah and passes the deviation test
C7_Witness ==
    /\ battery # <<>>
    /\ \E Qd \in {PeakQd(InputCycles)} :
         \E keep \in {should_keep(Qd, medfilt(Qd, KernelSize(Len(Qd))))} :
            \E i \in 1..Len(Qd) : Qd[i] = QdFloor /\ keep[i]

\* C8: organize_cycle_index keeps the length and the first value, adds one
\* where the raw value differs from the raw value before it and repeats the
\* previous result elsewhere; the result never decreases, and
\* [1,1,2,2,2,3,1] becomes [1,1,2,2,2,3,4].
C8_Normalization ==
    fpc = "done" =>
        /\ Len(ret) = Len(arg)
        /\ ret[1] = arg[1]
        /\ \A i \in 2..Len(arg) :
             /\ arg[i] # arg[i - 1] => ret[i] = ret[i - 1] + 1
             /\ arg[i] = arg[i - 1] => ret[i] = ret[i - 1]
             /\ ret[i - 1] <= ret[i]
        /\ arg = <<1, 1, 2, 2, 2, 3, 1>> => ret = <<1, 1, 2, 2, 2, 3, 4>>

\* the sequence of the example, with its re-appearing raw value, normalised
C8_Witness ==
    /\ fpc = "done"
    /\ arg = <<1, 1, 2, 2, 2, 3, 1>>
    /\ ret = <<1, 1, 2, 2, 2, 3, 4>>

\* C9: the kernel size handed to the median filter is 21 for 21 cycles or
\* more, and otherwise the largest odd number that is at most min(5, n).
C9_KernelOdd ==
    (fpc = "done" /\ Len(arg) >= 1) =>
        ret.kernel_size =
            IF Len(arg) >= 21 THEN 21
            ELSE IF Min(5, Len(arg)) % 2 = 1 THEN Min(5, Len(arg))
            ELSE Min(5, Len(arg)) - 1

\* C10: for samples in non-decreasing time order calc_Q returns a sequence as
\* long as the currents that starts at 0, is non-negative, and at sample i
\* adds |I[i]| * (t[i] - t[i-1]) / 3600 if I[i] has the selected polarity
\* and nothing otherwise; all-zero currents give all-zero capacities.
C10_Accumulation ==
    (fpc = "done" /\ \A i \in 2..Len(arg.t) : arg.t[i - 1] <= arg.t[i]) =>
        /\ Len(ret) = Len(arg.I)
        /\ ret[1] = 0
        /\ \A i \in 1..Len(ret) : ret[i] >= 0
        /\ \A i \in 2..Len(ret) :
             ret[i] = ret[i - 1] +
                (IF (arg.is_charge /\ arg.I[i] > 0) \/ (~arg.is_charge /\ arg.I[i] < 0)
                 THEN (Abs(arg.I[i]) * (arg.t[i] - arg.t[i - 1]) * (Ah \div Amp)) \div 3600
                 ELSE 0)
        /\ (\A i \in 1..Len(arg.I) : arg.I[i] = 0) => \A i \in 1..Len(ret) : ret[i] = 0

====
